---- MODULE Spec2Model ----
(***************************************************************************)
(* Citation-preserving chunk extraction of fast_graphrag                   *)
(* (fast_graphrag/_services/_chunk_extraction.py) and the scoring of the   *)
(* sentences of its chunks (fast_graphrag/_services/_scoring_utils.py).    *)
(*                                                                         *)
(* A text is a sequence of characters; a character is a one-letter string. *)
(* Offsets are Python offsets (0-based, end-exclusive).                    *)
(***************************************************************************)
EXTENDS Integers, Sequences, FiniteSets, TLC

VARIABLES service, data, extracted_chunks, chunks_per_data, call, threads

vars == <<service, data, extracted_chunks, chunks_per_data, call, threads>>

(***************************************************************************)
(* Bounds of the model.                                                    *)
(***************************************************************************)
\* longest raw document of a one-document extract call
MaxLen == 5
\* longest raw document of a two-document extract call
MaxPairLen == 1
\* longest document of LongSpec, and the largest chunk_token_size and
\* chunk_token_overlap there
MaxLongLen == 9
MaxLongTokenSize == 2
MaxLongTokenOverlap == 1
\* longest document of WideSpec
MaxWideLen == 4
\* longest document of TailSpec
MaxTailLen == 7
\* largest chunk_token_size / chunk_token_overlap a service is built with
MaxTokenSize == 1
MaxTokenOverlap == 1
\* longest document and longest enumerated query of ScoreSpec, the largest
\* max_sentences asked for and the chunk_token_size of the service there
MaxScoredLen == 4
MaxQueryLen == 1
MaxSentences == 2
MaxScoredTokenSize == 2
\* longest document of a two-document call of PairSpec
MaxScoredPairLen == 2
\* longest document of RaceSpec
MaxSharedLen == 3

(***************************************************************************)
(* Characters.  "a" stands for a lower-case letter, "A" for an upper-case  *)
(* letter, "." for the full stop, "!" for any other terminator of           *)
(* SENTENCE_PATTERN (? ! and the full-width ones), " " for a blank and "^" *)
(* for a control character of [\x00-\x1f\x7f-\x9f] other than white space. *)
(***************************************************************************)
Lower == {"a"}
Upper == {"A"}
WordChars == Lower \cup Upper
Terminators == {".", "!"}
Whitespace == {" "}
Control == {"^"}
\* the characters of the documents of Spec
Alphabet == Lower \cup Upper \cup {"."} \cup Whitespace \cup Control
\* the characters of the long documents of LongSpec
UnitAlphabet == {"."} \cup Whitespace
\* the characters of the documents of WideSpec
WideAlphabet == Lower \cup {"!"} \cup Whitespace
\* the characters of the documents of TailSpec and of the scored documents
TailAlphabet == Lower \cup {"."} \cup Whitespace

TOKEN_TO_CHAR_RATIO == 4

Min(a, b) == IF a <= b THEN a ELSE b
Max(a, b) == IF a >= b THEN a ELSE b
Abs(x) == IF x >= 0 THEN x ELSE -x

\* Python text[i:j] for 0 <= i, j
Slice(text, i, j) == SubSeq(text, i + 1, Min(j, Len(text)))

\* the leading n characters of text
Leading(text, n) == SubSeq(text, 1, Min(n, Len(text)))

\* Python text[-n:] for n >= 0 (text[-0:] is the whole text)
Suffix(text, n) ==
    IF n = 0 \/ n >= Len(text) THEN text ELSE SubSeq(text, Len(text) - n + 1, Len(text))

\* str.strip()
Strip(text) ==
    LET keep == {i \in 1..Len(text) : text[i] \notin Whitespace}
    IN  IF keep = {} THEN <<>>
        ELSE LET lo == CHOOSE i \in keep : \A j \in keep : i <= j
                 hi == CHOOSE i \in keep : \A j \in keep : i >= j
             IN  SubSeq(text, lo, hi)

\* str.find(pat, from): the least offset >= from where pat occurs, or -1
Find(text, pat, from) ==
    LET hits == {k \in from..(Len(text) - Len(pat)) : Slice(text, k, k + Len(pat)) = pat}
    IN  IF hits = {} THEN -1 ELSE CHOOSE k \in hits : \A j \in hits : k <= j

\* re.sub(r"[\x00-\x1f\x7f-\x9f]", "", text)
Sanitize(text) == SelectSeq(text, LAMBDA c : c \notin Control)

(***************************************************************************)
(* SENTENCE_PATTERN at offset p of text: the three look-behinds, then      *)
(* (\s+|$).                                                                *)
(***************************************************************************)
LookBehindOk(text, p) ==
    /\ ~ (/\ p >= 4
          /\ text[p - 3] \in WordChars
          /\ text[p - 2] = "."
          /\ text[p - 1] \in WordChars)
    /\ ~ (/\ p >= 3
          /\ text[p - 2] \in Upper
          /\ text[p - 1] \in Lower
          /\ text[p] = ".")
    /\ p >= 1
    /\ text[p] \in Terminators

\* end offset of the white-space run that starts at offset p
RECURSIVE WhitespaceEnd(_, _)
WhitespaceEnd(text, p) ==
    IF p < Len(text) /\ text[p + 1] \in Whitespace THEN WhitespaceEnd(text, p + 1) ELSE p

SENTENCE_PATTERN(text, p) ==
    /\ LookBehindOk(text, p)
    /\ \/ p < Len(text) /\ text[p + 1] \in Whitespace
       \/ p = Len(text)

\* re.split(SENTENCE_PATTERN, text): the pieces and the captured separators
RECURSIVE re_split(_, _, _)
re_split(text, from, p) ==
    IF p > Len(text) THEN <<Slice(text, from, Len(text))>>
    ELSE IF SENTENCE_PATTERN(text, p)
         THEN LET e == WhitespaceEnd(text, p)
              IN  <<Slice(text, from, p), Slice(text, p, e)>>
                  \o (IF e = p THEN <<Slice(text, p, Len(text))>> ELSE re_split(text, e, e))
         ELSE re_split(text, from, p + 1)

\* the while loop of extract_sentences over raw_sentences, from index i (0-based)
RECURSIVE processed_sentences(_, _)
processed_sentences(raw, i) ==
    IF i >= Len(raw) THEN <<>>
    ELSE IF Strip(raw[i + 1]) # <<>>
         THEN IF i + 1 < Len(raw) /\ Strip(raw[i + 2]) = <<>>
              THEN <<raw[i + 1] \o raw[i + 2]>> \o processed_sentences(raw, i + 2)
              ELSE <<raw[i + 1]>> \o processed_sentences(raw, i + 1)
         ELSE processed_sentences(raw, i + 1)

\* the final filtering with the sentences appended as they are, not stripped
RECURSIVE NonEmptyUnstripped(_)
NonEmptyUnstripped(sentences) ==
    IF sentences = <<>> THEN <<>>
    ELSE (IF Strip(Head(sentences)) # <<>> THEN <<Head(sentences)>> ELSE <<>>)
         \o NonEmptyUnstripped(Tail(sentences))

\* the final filtering of extract_sentences: the stripped non-empty sentences
RECURSIVE StripNonEmpty(_)
StripNonEmpty(sentences) ==
    IF sentences = <<>> THEN <<>>
    ELSE (IF Strip(Head(sentences)) # <<>> THEN <<Strip(Head(sentences))>> ELSE <<>>)
         \o StripNonEmpty(Tail(sentences))

extract_sentences(text) == StripNonEmpty(processed_sentences(re_split(text, 0, 0), 0))


(***************************************************************************)
(* Sentence offsets.                                                       *)
(***************************************************************************)
\* re.search(pattern, search_text).start() for a literal pattern, or -1
SearchIn(search_text, sentence) == Find(search_text, sentence, 0)

\* current_pos left where it was: the search starts over at every sentence
NextPosNotAdvanced(current_pos, end) == current_pos

\* current_pos = end
NextPos(current_pos, end) == end

RECURSIVE sentence_offsets_loop(_, _, _)
sentence_offsets_loop(text, sentences, current_pos) ==
    IF sentences = <<>> THEN <<>>
    ELSE LET sentence == Head(sentences)
             m == SearchIn(Slice(text, current_pos, Len(text)), sentence)
         IN  IF Strip(sentence) = <<>> \/ m = -1
             THEN sentence_offsets_loop(text, Tail(sentences), current_pos)
             ELSE LET start == current_pos + m
                      end == start + Len(sentence)
                  IN  <<<<start, end>>>>
                      \o sentence_offsets_loop(text, Tail(sentences), NextPos(current_pos, end))

extract_sentence_offsets(text) == sentence_offsets_loop(text, extract_sentences(text), 0)

\* the chunk-local pair, base_offset not added
WithoutBase(base_offset, pair) == pair

\* (base_offset + start, base_offset + end)
WithBase(base_offset, pair) == <<base_offset + pair[1], base_offset + pair[2]>>

extract_sentence_offsets_with_base(text, base_offset) ==
    LET offsets == extract_sentence_offsets(text)
    IN  [k \in 1..Len(offsets) |-> WithBase(base_offset, offsets[k])]

(***************************************************************************)
(* Splitting, merging and overlap.  A split is <<text, start, end>>.       *)
(***************************************************************************)
RECURSIVE splits_loop(_, _, _)
splits_loop(text, sentences, current_offset) ==
    IF sentences = <<>> THEN <<>>
    ELSE LET sentence == Head(sentences)
             start == Find(text, sentence, current_offset)
         IN  IF Strip(sentence) = <<>> \/ start = -1
             THEN splits_loop(text, Tail(sentences), current_offset)
             ELSE <<<<sentence, start, start + Len(sentence)>>>>
                  \o splits_loop(text, Tail(sentences), start + Len(sentence))

\* "".join(part[0] for part in current_chunk)
RECURSIVE JoinParts(_)
JoinParts(current_chunk) ==
    IF current_chunk = <<>> THEN <<>>
    ELSE Head(current_chunk)[1] \o JoinParts(Tail(current_chunk))

\* a closed chunk: (chunk_text, chunk_start, chunk_end)
CloseChunk(current_chunk) ==
    <<JoinParts(current_chunk), current_chunk[1][2], current_chunk[Len(current_chunk)][3]>>

\* no room kept for the overlap prefix
NoOverlapAdjustment(srv, current_chunk) == 0

\* overlap_adjustment = self._chunk_overlap if current_chunk else 0
overlap_adjustment(srv, current_chunk) ==
    IF current_chunk # <<>> THEN srv.chunk_overlap ELSE 0

\* a split joins only when it leaves at least one character free
JoinsStrictly(srv, current_chunk, current_length, split_length) ==
    current_length + split_length < srv.chunk_size - overlap_adjustment(srv, current_chunk)

\* the condition under which a split joins the current chunk
Joins(srv, current_chunk, current_length, split_length) ==
    current_length + split_length <= srv.chunk_size - overlap_adjustment(srv, current_chunk)

\* the for loop of _merge_splits_with_offsets and the closing of the last chunk
RECURSIVE merge_loop(_, _, _, _, _)
merge_loop(srv, splits, merged_splits, current_chunk, current_length) ==
    IF splits = <<>>
    THEN IF current_chunk # <<>>
         THEN Append(merged_splits, CloseChunk(current_chunk))
         ELSE merged_splits
    ELSE LET split_item == Head(splits)
             split_length == Len(split_item[1])
         IN  IF Joins(srv, current_chunk, current_length, split_length)
             THEN merge_loop(srv, Tail(splits), merged_splits,
                             Append(current_chunk, split_item),
                             current_length + split_length)
             ELSE merge_loop(srv, Tail(splits),
                             IF current_chunk # <<>>
                             THEN Append(merged_splits, CloseChunk(current_chunk))
                             ELSE merged_splits,
                             <<split_item>>, split_length)

\* merged_splits of _merge_splits_with_offsets, before overlap is enforced
merged_splits_of(srv, splits) ==
    IF splits = <<>> THEN <<>> ELSE merge_loop(srv, splits, <<>>, <<>>, 0)

\* the overlap taken from the previous chunk as already extended by its own overlap
prev_result_text(chunks, result, i) == result[i - 1][1]

\* prev_chunk_text = chunks[i-1][0]: the text the overlap of chunk i (1-based, i > 1)
\* is taken from
prev_chunk_text(chunks, result, i) == chunks[i - 1][1]

\* A start offset left where the chunk's own text starts, not pulled back over
\* the overlap prefix.
StartOfOwnText(chunk_item, new_chunk) == chunk_item[2]

\* new_start: the start offset pulled back from the end offset by the length
\* of the chunk text with its overlap prefix.
new_start(chunk_item, new_chunk) == chunk_item[3] - Len(new_chunk)

RECURSIVE enforce_loop(_, _, _, _)
enforce_loop(srv, chunks, result, i) ==
    IF i > Len(chunks) THEN result
    ELSE IF i = 1 THEN enforce_loop(srv, chunks, Append(result, chunks[i]), i + 1)
    ELSE LET prev == prev_chunk_text(chunks, result, i)
             overlap_size == Min(srv.chunk_overlap, Len(prev))
             overlap_text == Suffix(prev, overlap_size)
             new_chunk == overlap_text \o chunks[i][1]
         IN  enforce_loop(srv, chunks,
                          Append(result, <<new_chunk, new_start(chunks[i], new_chunk),
                                           chunks[i][3]>>),
                          i + 1)

enforce_overlap_with_offsets(srv, chunks) == enforce_loop(srv, chunks, <<>>, 1)

merge_splits_with_offsets(srv, splits) ==
    LET merged_splits == merged_splits_of(srv, splits)
    IN  IF splits = <<>> THEN <<>>
        ELSE IF srv.chunk_overlap > 0 THEN enforce_overlap_with_offsets(srv, merged_splits)
        ELSE merged_splits

\* the sentence units of _split_text_with_offsets, before they are merged
splits_with_offsets(text) == splits_loop(text, extract_sentences(text), 0)

split_text_with_offsets(srv, text) == merge_splits_with_offsets(srv, splits_with_offsets(text))

(***************************************************************************)
(* Chunks.                                                                 *)
(***************************************************************************)
CharCode(c) ==
    CASE c = "a" -> 1 [] c = "A" -> 2 [] c = "." -> 3 [] c = " " -> 4 [] c = "!" -> 6
      [] OTHER -> 5

\* xxhash.xxh3_64_intdigest(content): a deterministic hash of the content, here a
\* polynomial hash kept in 16 bits
RECURSIVE xxh3_64_intdigest(_)
xxh3_64_intdigest(content) ==
    IF content = <<>> THEN 7
    ELSE (xxh3_64_intdigest(SubSeq(content, 1, Len(content) - 1)) * 31
          + CharCode(content[Len(content)])) % 65536

\* sentence_scores of a citation that was never scored; the scorer stores no empty
\* mapping, so the empty mapping stands for None
None == <<>>

TCitation(start_offset, end_offset, sentence_offsets) ==
    [start_offset |-> start_offset, end_offset |-> end_offset,
     sentence_offsets |-> sentence_offsets, sentence_scores |-> None]

TChunk(content, metadata, citation) ==
    [id |-> xxh3_64_intdigest(content), content |-> content, metadata |-> metadata,
     citation |-> citation]

\* len(data.data) < self._chunk_size: a document that exactly fills a chunk is split
FitsOneChunkStrictly(srv, text) == Len(text) < srv.chunk_size

\* len(data.data) <= self._chunk_size
FitsOneChunk(srv, text) == Len(text) <= srv.chunk_size

\* _extract_chunks for a document whose data is already sanitised
extract_chunks(srv, doc) ==
    IF FitsOneChunk(srv, doc.data)
    THEN <<TChunk(doc.data, doc.metadata,
                  TCitation(0, Len(doc.data), extract_sentence_offsets(doc.data)))>>
    ELSE LET chunks_with_offsets == split_text_with_offsets(srv, doc.data)
         IN  [k \in 1..Len(chunks_with_offsets) |->
                LET c == chunks_with_offsets[k]
                IN  TChunk(c[1], doc.metadata,
                           TCitation(c[2], c[3],
                                     extract_sentence_offsets_with_base(c[1], c[2])))]

\* the set of seen ids created once, before the loop over the documents
shared_unique_chunk_ids(ids_of_previous_document) == ids_of_previous_document

\* unique_chunk_ids = set(), at the start of each document's iteration
fresh_unique_chunk_ids(ids_of_previous_document) == {}

\* no membership test: every chunk is kept
NeverSeen(id, unique_chunk_ids) == TRUE

\* chunk.id not in unique_chunk_ids
NotSeen(id, unique_chunk_ids) == id \notin unique_chunk_ids

\* the inner loop of extract: the chunks kept and the ids seen
RECURSIVE unique_loop(_, _, _)
unique_loop(extracted, unique_chunk_ids, chunks) ==
    IF extracted = <<>> THEN [chunks |-> chunks, ids |-> unique_chunk_ids]
    ELSE LET chunk == Head(extracted)
         IN  IF NotSeen(chunk.id, unique_chunk_ids)
             THEN unique_loop(Tail(extracted), unique_chunk_ids \cup {chunk.id},
                              Append(chunks, chunk))
             ELSE unique_loop(Tail(extracted), unique_chunk_ids, chunks)

\* the outer loop of extract over the documents from index i (1-based)
RECURSIVE extract_loop(_, _, _, _)
extract_loop(srv, docs, i, ids_of_previous_document) ==
    IF i > Len(docs) THEN <<>>
    ELSE LET r == unique_loop(extract_chunks(srv, docs[i]),
                              fresh_unique_chunk_ids(ids_of_previous_document), <<>>)
         IN  <<r.chunks>> \o extract_loop(srv, docs, i + 1, r.ids)

(***************************************************************************)
(* Scoring.  A score is a fixed-point number: One stands for 1.0 and the   *)
(* weights are in tenths, so a score is 10 * One times the float of the    *)
(* code.  Every quotient is exact for up to 6 query terms, up to 6         *)
(* sentences and sentences of up to optimal_length characters.             *)
(***************************************************************************)
One == 600
TERM_OVERLAP_WEIGHT == 6
POSITION_WEIGHT == 3
LENGTH_WEIGHT == 1
optimal_length == 100

\* the text as it is, its case kept
NotFolded(text) == text

\* str.lower()
str_lower(text) == [p \in 1..Len(text) |-> IF text[p] \in Upper THEN "a" ELSE text[p]]

\* set(text.split()): the maximal runs of characters that are not white space
str_split(text) ==
    {SubSeq(text, x[1], x[2]) :
        x \in {x \in (1..Len(text)) \X (1..Len(text)) :
                  /\ x[1] <= x[2]
                  /\ \A p \in x[1]..x[2] : text[p] \notin Whitespace
                  /\ x[1] = 1 \/ text[x[1] - 1] \in Whitespace
                  /\ x[2] = Len(text) \/ text[x[2] + 1] \in Whitespace}}

\* rel_start, rel_end: the span of a sentence relative to the chunk content
rel_start(chunk, span) == Max(0, span[1] - chunk.citation.start_offset)
rel_end(chunk, span) == Min(Len(chunk.content), span[2] - chunk.citation.start_offset)

\* rel_start < rel_end and rel_end <= len(tchunk.content)
InContent(chunk, span) ==
    /\ rel_start(chunk, span) < rel_end(chunk, span)
    /\ rel_end(chunk, span) <= Len(chunk.content)

\* tchunk.content[rel_start:rel_end]
sentence_of(chunk, span) == Slice(chunk.content, rel_start(chunk, span), rel_end(chunk, span))

\* scores[i] of the sentence with index i (0-based)
score(chunk, query_terms, i) ==
    LET sentence_offsets == chunk.citation.sentence_offsets
        sentence == Strip(sentence_of(chunk, sentence_offsets[i + 1]))
        sentence_terms == str_split(str_lower(sentence))
        term_overlap_score ==
            IF query_terms # {} /\ sentence_terms # {}
            THEN (Cardinality(query_terms \cap sentence_terms) * One)
                     \div Cardinality(query_terms)
            ELSE 0
        position_score == One - (i * One) \div Max(1, Len(sentence_offsets))
        length_score ==
            One - Min(One, (Abs(Len(sentence) - optimal_length) * One) \div optimal_length)
    IN  TERM_OVERLAP_WEIGHT * term_overlap_score
        + POSITION_WEIGHT * position_score
        + LENGTH_WEIGHT * length_score

\* the scores dictionary built by the loop of score_sentences_in_chunk
scores_of(chunk, query) ==
    LET query_terms == str_split(str_lower(query))
        sentence_offsets == chunk.citation.sentence_offsets
        scored == {i \in 0..(Len(sentence_offsets) - 1) :
                     /\ InContent(chunk, sentence_offsets[i + 1])
                     /\ Strip(sentence_of(chunk, sentence_offsets[i + 1])) # <<>>}
    IN  [i \in scored |-> score(chunk, query_terms, i)]

\* scores are kept once they are there: only the first query populates them
LazilyStored(sentence_scores, scores) ==
    IF sentence_scores # None THEN sentence_scores ELSE scores

\* if scores: citation.sentence_scores = scores
stored_scores(sentence_scores, scores) ==
    IF scores # <<>> THEN scores ELSE sentence_scores

\* the chunk after score_sentences_in_chunk(chunk, query)
score_sentences_in_chunk(chunk, query) ==
    IF chunk.citation.sentence_offsets = <<>> THEN chunk
    ELSE [chunk EXCEPT !.citation.sentence_scores =
                           stored_scores(@, scores_of(chunk, query))]

\* sorted(keys, key=score, reverse=True): a stable sort, so that among equal scores
\* the keys stay in the order of the dictionary, which is ascending
RECURSIVE sorted_by_score(_, _)
sorted_by_score(sentence_scores, keys) ==
    IF keys = {} THEN <<>>
    ELSE LET first == CHOOSE i \in keys : \A j \in keys :
                          \/ sentence_scores[i] > sentence_scores[j]
                          \/ sentence_scores[i] = sentence_scores[j] /\ i <= j
         IN  <<first>> \o sorted_by_score(sentence_scores, keys \ {first})

\* the top indices left in the order of their scores
score_order(top_indices) == top_indices

\* sorted(top_indices)
RECURSIVE position_order(_)
position_order(top_indices) ==
    IF top_indices = <<>> THEN <<>>
    ELSE LET least == CHOOSE n \in DOMAIN top_indices :
                          \A m \in DOMAIN top_indices : top_indices[n] <= top_indices[m]
         IN  <<top_indices[least]>>
             \o position_order([n \in 1..(Len(top_indices) - 1) |->
                                   IF n < least THEN top_indices[n] ELSE top_indices[n + 1]])

\* content[:n] + "..." if len(content) > n else content
snippet(content, n) ==
    IF Len(content) > n THEN Slice(content, 0, n) \o <<".", ".", ".">> ELSE content

\* the sentences appended by the last loop of extract_relevant_sentences
RECURSIVE result_sentences(_, _)
result_sentences(chunk, indices) ==
    IF indices = <<>> THEN <<>>
    ELSE LET idx == Head(indices)
             sentence_offsets == chunk.citation.sentence_offsets
         IN  (IF idx < Len(sentence_offsets) /\ InContent(chunk, sentence_offsets[idx + 1])
              THEN <<sentence_of(chunk, sentence_offsets[idx + 1])>>
              ELSE <<>>)
             \o result_sentences(chunk, Tail(indices))

\* what extract_relevant_sentences returns for a chunk that it has just scored
relevant_sentences(chunk, max_sentences) ==
    LET sentence_scores == chunk.citation.sentence_scores
    IN  IF sentence_scores = None THEN <<snippet(chunk.content, 200)>>
        ELSE LET sorted == sorted_by_score(sentence_scores, DOMAIN sentence_scores)
                 top_indices == SubSeq(sorted, 1, Min(max_sentences, Len(sorted)))
             IN  result_sentences(chunk, position_order(top_indices))

\* TCitation.get_most_relevant_sentence(content): the chunk-local text of the
\* highest-scoring sentence, or none
get_most_relevant_sentence(chunk) ==
    LET sentence_scores == chunk.citation.sentence_scores
    IN  IF sentence_scores = None THEN <<>>
        ELSE result_sentences(chunk, SubSeq(sorted_by_score(sentence_scores,
                                                            DOMAIN sentence_scores), 1, 1))

\* the entry get_highlighted_sentences appends for a chunk it has just scored:
\* the text between the bullet and the source, and the title, for which the
\* metadata of the document stands
highlighted(chunk) ==
    LET best_sentence == get_most_relevant_sentence(chunk)
    IN  IF chunk.citation.sentence_scores # None /\ best_sentence # <<>>
              /\ best_sentence[1] # <<>>
        THEN [text |-> Strip(best_sentence[1]), title |-> chunk.metadata]
        ELSE [text |-> Strip(snippet(chunk.content, 150)), title |-> chunk.metadata]

\* the chunks passed to get_highlighted_sentences: those of all documents, in order,
\* each named by its document and its position
RECURSIVE chunk_list(_, _)
chunk_list(chunks, i) ==
    IF i > Len(chunks) THEN <<>>
    ELSE [k \in 1..Len(chunks[i]) |-> <<i, k>>] \o chunk_list(chunks, i + 1)

\* get_highlighted_sentences run alone on chunks, from the n-th chunk of the list on:
\* the chunks afterwards and the results
RECURSIVE highlighted_loop(_, _, _, _)
highlighted_loop(chunks, query, n, results) ==
    IF n > Len(chunk_list(chunks, 1)) THEN [chunks |-> chunks, results |-> results]
    ELSE LET at == chunk_list(chunks, 1)[n]
             tchunk == score_sentences_in_chunk(chunks[at[1]][at[2]], query)
         IN  highlighted_loop([chunks EXCEPT ![at[1]][at[2]] = tchunk], query, n + 1,
                              Append(results, highlighted(tchunk)))

(***************************************************************************)
(* The service as a state machine.                                         *)
(***************************************************************************)
TokenSizes == (-1)..MaxTokenSize
TokenOverlaps == (-1)..MaxTokenOverlap

TextsOver(alphabet, n) == UNION {[1..k -> alphabet] : k \in 0..n}

Texts(n) == UNION {[1..k -> Alphabet] : k \in 0..n}

\* the document lists an extract call is given (the raw text of each document)
Inputs ==
    {<<>>} \cup {<<d>> : d \in Texts(MaxLen)}
           \cup {<<d1, d2>> : d1 \in Texts(MaxPairLen), d2 \in Texts(MaxPairLen)}

NotConstructed ==
    [constructed |-> FALSE, chunk_token_size |-> 0, chunk_token_overlap |-> 0,
     chunk_size |-> 0, chunk_overlap |-> 0]

\* the threads that may run get_highlighted_sentences on the extracted chunks
Threads == {1, 2}

\* no scoring call was made / the thread has made no call
NoCall == [op |-> "none", doc |-> 0, pos |-> 0, query |-> <<>>, max_sentences |-> 0,
           value |-> <<>>]
Idle == [pc |-> "idle", query |-> <<>>, at |-> 0, results |-> <<>>]

Init ==
    /\ service = NotConstructed
    /\ data = <<>>
    /\ extracted_chunks = <<>>
    /\ chunks_per_data = <<>>
    /\ call = NoCall
    /\ threads = [t \in Threads |-> Idle]

\* DefaultChunkingService(config=DefaultChunkingServiceConfig(...)): __post_init__
Construct(chunk_token_size, chunk_token_overlap) ==
    /\ ~ service.constructed
    /\ service' = [constructed |-> TRUE,
                   chunk_token_size |-> chunk_token_size,
                   chunk_token_overlap |-> chunk_token_overlap,
                   chunk_size |-> chunk_token_size * TOKEN_TO_CHAR_RATIO,
                   chunk_overlap |-> chunk_token_overlap * TOKEN_TO_CHAR_RATIO]
    /\ UNCHANGED <<data, extracted_chunks, chunks_per_data, call, threads>>

\* await service.extract(documents); the document with index i carries metadata i.
\* extract reads nothing but the configuration, so a behaviour makes one call with
\* documents.
Extract(raw) ==
    /\ service.constructed
    /\ data = <<>>
    /\ LET docs == [i \in 1..Len(raw) |-> [data |-> Sanitize(raw[i]), metadata |-> i]]
       IN  /\ data' = docs
           /\ extracted_chunks' = [i \in 1..Len(docs) |-> extract_chunks(service, docs[i])]
           /\ chunks_per_data' = extract_loop(service, docs, 1, {})
    /\ UNCHANGED <<service, call, threads>>

\* score_sentences_in_chunk(chunk, query) on the chunk at position k of document i
ScoreSentences(i, k, query) ==
    /\ i \in DOMAIN chunks_per_data
    /\ k \in DOMAIN chunks_per_data[i]
    /\ chunks_per_data' = [chunks_per_data EXCEPT
                              ![i][k] = score_sentences_in_chunk(@, query)]
    /\ call' = [op |-> "score_sentences_in_chunk", doc |-> i, pos |-> k,
                query |-> query, max_sentences |-> 0, value |-> <<>>]
    /\ UNCHANGED <<service, data, extracted_chunks, threads>>

\* extract_relevant_sentences(chunk, query, max_sentences) on the chunk at position k
\* of document i; every extracted chunk has a citation
ExtractRelevantSentences(i, k, query, max_sentences) ==
    /\ i \in DOMAIN chunks_per_data
    /\ k \in DOMAIN chunks_per_data[i]
    /\ LET tchunk == score_sentences_in_chunk(chunks_per_data[i][k], query)
       IN  /\ chunks_per_data' = [chunks_per_data EXCEPT ![i][k] = tchunk]
           /\ call' = [op |-> "extract_relevant_sentences", doc |-> i, pos |-> k,
                       query |-> query, max_sentences |-> max_sentences,
                       value |-> relevant_sentences(tchunk, max_sentences)]
    /\ UNCHANGED <<service, data, extracted_chunks, threads>>

\* get_highlighted_sentences(chunks, query) on the extracted chunks, run by one caller
GetHighlightedSentences(query) ==
    /\ data # <<>>
    /\ LET r == highlighted_loop(chunks_per_data, query, 1, <<>>)
       IN  /\ chunks_per_data' = r.chunks
           /\ call' = [op |-> "get_highlighted_sentences", doc |-> 0, pos |-> 0,
                       query |-> query, max_sentences |-> 0, value |-> r.results]
    /\ UNCHANGED <<service, data, extracted_chunks, threads>>

\* get_highlighted_sentences(chunks, query) run by thread t on the extracted chunks,
\* which it shares with the other thread: the call is entered, ...
EnterHighlighted(t, query) ==
    /\ data # <<>>
    /\ threads[t].pc = "idle"
    /\ threads' = [threads EXCEPT ![t] = [pc |-> "scoring", query |-> query, at |-> 1,
                                          results |-> <<>>]]
    /\ UNCHANGED <<service, data, extracted_chunks, chunks_per_data, call>>

\* ... score_sentences_in_chunk(tchunk, query) writes the scores of the chunk the
\* loop is at, ...
ScoreChunk(t) ==
    /\ threads[t].pc = "scoring"
    /\ LET at == chunk_list(chunks_per_data, 1)[threads[t].at]
       IN  chunks_per_data' = [chunks_per_data EXCEPT ![at[1]][at[2]] =
                                  score_sentences_in_chunk(@, threads[t].query)]
    /\ threads' = [threads EXCEPT ![t].pc = "selecting"]
    /\ UNCHANGED <<service, data, extracted_chunks, call>>

\* ... and the body of the loop reads tchunk.citation.sentence_scores and appends
\* the entry of the chunk
SelectSentence(t) ==
    /\ threads[t].pc = "selecting"
    /\ LET at == chunk_list(chunks_per_data, 1)[threads[t].at]
       IN  threads' = [threads EXCEPT
                         ![t].results = Append(@, highlighted(chunks_per_data[at[1]][at[2]])),
                         ![t].at = @ + 1,
                         ![t].pc = IF threads[t].at = Len(chunk_list(chunks_per_data, 1))
                                   THEN "done" ELSE "scoring"]
    /\ UNCHANGED <<service, data, extracted_chunks, chunks_per_data, call>>

Next ==
    \/ \E ts \in TokenSizes, ov \in TokenOverlaps : Construct(ts, ov)
    \/ /\ data = <<>>
       /\ \E raw \in Inputs : Extract(raw)

Spec == Init /\ [][Next]_vars

(***************************************************************************)
(* LongSpec: one extract call with one long document of full stops and     *)
(* blanks, so that chunks are merged from several units with and without   *)
(* overlap.                                                                *)
(***************************************************************************)
LongTokenSizes == (-1)..MaxLongTokenSize
LongTokenOverlaps == (-1)..MaxLongTokenOverlap

LongInputs == {<<d>> : d \in TextsOver(UnitAlphabet, MaxLongLen)}

LongNext ==
    \/ \E ts \in LongTokenSizes, ov \in LongTokenOverlaps : Construct(ts, ov)
    \/ /\ data = <<>>
       /\ \E raw \in LongInputs : Extract(raw)

LongSpec == Init /\ [][LongNext]_vars

(***************************************************************************)
(* WideSpec: one extract call with one document whose sentences end with   *)
(* a terminator other than the full stop.                                  *)
(***************************************************************************)
WideInputs == {<<d>> : d \in TextsOver(WideAlphabet, MaxWideLen)}

WideNext ==
    \/ \E ts \in TokenSizes, ov \in TokenOverlaps : Construct(ts, ov)
    \/ /\ data = <<>>
       /\ \E raw \in WideInputs : Extract(raw)

WideSpec == Init /\ [][WideNext]_vars

(***************************************************************************)
(* TailSpec: a service with a positive size and an overlap that is not     *)
(* negative, and one extract call with one document of letters, full stops *)
(* and blanks, long enough for a chunk that is longer than the overlap.    *)
(***************************************************************************)
TailTokenSizes == 1..MaxTokenSize
TailTokenOverlaps == 0..MaxTokenOverlap
TailInputs == {<<d>> : d \in TextsOver(TailAlphabet, MaxTailLen)}

TailNext ==
    \/ \E ts \in TailTokenSizes, ov \in TailTokenOverlaps : Construct(ts, ov)
    \/ /\ data = <<>>
       /\ \E raw \in TailInputs : Extract(raw)

TailSpec == Init /\ [][TailNext]_vars

(***************************************************************************)
(* ScoreSpec: the chunk of one document that fits one chunk is scored and   *)
(* its relevant sentences extracted, any number of times, by one caller.   *)
(***************************************************************************)
\* the queries: short ones of a letter and a full stop, short ones of letters in
\* both cases, and one of four terms, "a", "aa", "a." and ".a"
SharedQueries == TextsOver(Lower \cup {"."}, MaxQueryLen)
WordQueries == TextsOver(WordChars, MaxQueryLen)
FourTermQuery == <<"a", " ", "a", "a", " ", "a", ".", " ", ".", "a">>
ScoredQueries == SharedQueries \cup {FourTermQuery}

ScoredInputs == {<<d>> : d \in TextsOver(TailAlphabet, MaxScoredLen)}

\* the positions of the chunks of a one- or two-document call
ChunkPositions == {ik \in (1..2) \X (1..MaxScoredLen) :
                     /\ ik[1] \in DOMAIN chunks_per_data
                     /\ ik[2] \in DOMAIN chunks_per_data[ik[1]]}

ScoreNext ==
    \/ Construct(MaxScoredTokenSize, 0)
    \/ /\ data = <<>>
       /\ \E raw \in ScoredInputs : Extract(raw)
    \/ \E ik \in ChunkPositions, query \in ScoredQueries :
           ScoreSentences(ik[1], ik[2], query)
    \/ \E ik \in ChunkPositions, query \in ScoredQueries, max_sentences \in 1..MaxSentences :
           ExtractRelevantSentences(ik[1], ik[2], query, max_sentences)

ScoreSpec == Init /\ [][ScoreNext]_vars

(***************************************************************************)
(* PairSpec: the chunks of two documents are passed to                     *)
(* get_highlighted_sentences, any number of times, by one caller.          *)
(***************************************************************************)
PairInputs == {<<d1, d2>> : d1 \in TextsOver(TailAlphabet, MaxScoredPairLen),
                            d2 \in TextsOver(TailAlphabet, MaxScoredPairLen)}

PairNext ==
    \/ Construct(MaxScoredTokenSize, 0)
    \/ /\ data = <<>>
       /\ \E raw \in PairInputs : Extract(raw)
    \/ \E query \in WordQueries : GetHighlightedSentences(query)

PairSpec == Init /\ [][PairNext]_vars

(***************************************************************************)
(* RaceSpec: two threads run get_highlighted_sentences, once each, on the  *)
(* chunks of one document, which they share.  A thread may be preempted    *)
(* between the write of sentence_scores and the read of it.                *)
(***************************************************************************)
SharedInputs == {<<d>> : d \in TextsOver(TailAlphabet, MaxSharedLen)}

RaceNext ==
    \/ \E ts \in TailTokenSizes, ov \in TailTokenOverlaps : Construct(ts, ov)
    \/ /\ data = <<>>
       /\ \E raw \in SharedInputs : Extract(raw)
    \/ \E t \in Threads, query \in SharedQueries : EnterHighlighted(t, query)
    \/ \E t \in Threads : ScoreChunk(t)
    \/ \E t \in Threads : SelectSentence(t)

RaceSpec == Init /\ [][RaceNext]_vars

(***************************************************************************)
(* Notions the properties are stated with.                                 *)
(***************************************************************************)
\* max_chars of the constructed service
max_chars == service.chunk_token_size * TOKEN_TO_CHAR_RATIO

\* the configuration is one that section 7 of the specification allows
ValidConfiguration == service.chunk_token_size > 0 /\ service.chunk_token_overlap >= 0

\* the documents of the extract call and the positions of a chunk list
Documents == 1..Len(data)
Positions(chunks) == 1..Len(chunks)

\* document i took the split path of _extract_chunks
SplitPath(i) == Len(data[i].data) > max_chars

\* the sentence units of document i and its chunks before overlap is enforced
UnitsOf(i) == splits_with_offsets(data[i].data)
OwnChunksOf(i) == merged_splits_of(service, UnitsOf(i))

\* the number of characters chunk k of document i borrowed from its predecessor
Borrowed(i, k) == Len(extracted_chunks[i][k].content) - Len(OwnChunksOf(i)[k][1])

\* the positions of a chunk list at which an id occurs for the first time
FirstOccurrences(chunks) ==
    {k \in Positions(chunks) : \A j \in 1..(k - 1) : chunks[j].id # chunks[k].id}

\* the subsequence of chunks at the positions in keep, from position k on
RECURSIVE SubsequenceAt(_, _, _)
SubsequenceAt(chunks, keep, k) ==
    IF k > Len(chunks) THEN <<>>
    ELSE (IF k \in keep THEN <<chunks[k]>> ELSE <<>>) \o SubsequenceAt(chunks, keep, k + 1)

(***************************************************************************)
(* C1  Single-chunk property: a document whose sanitised content is no     *)
(* longer than max_chars (the empty document included) yields exactly one  *)
(* chunk, whose content is the whole content and whose citation spans      *)
(* (0, len(content)).                                                      *)
(***************************************************************************)
SingleChunkProperty ==
    \A i \in Documents :
        Len(data[i].data) <= max_chars =>
            /\ Len(extracted_chunks[i]) = 1
            /\ extracted_chunks[i][1].content = data[i].data
            /\ extracted_chunks[i][1].citation.start_offset = 0
            /\ extracted_chunks[i][1].citation.end_offset = Len(data[i].data)
            /\ chunks_per_data[i] = extracted_chunks[i]

\* a document of several sentences that exactly fills max_chars came out as one chunk
SingleChunkWitness ==
    ValidConfiguration /\ \E i \in Documents :
        /\ Len(data[i].data) = max_chars
        /\ max_chars > 0
        /\ Len(extracted_chunks[i]) = 1
        /\ Len(extracted_chunks[i][1].citation.sentence_offsets) = 2

(***************************************************************************)
(* C2  Offset fidelity: with overlap disabled, the slice                   *)
(* document[start_offset:end_offset] of every chunk equals its content.    *)
(* Stated for the valid configurations, where it already fails.            *)
(***************************************************************************)
OffsetFidelity ==
    ValidConfiguration /\ service.chunk_token_overlap = 0 =>
        \A i \in Documents : \A k \in Positions(chunks_per_data[i]) :
            LET chunk == chunks_per_data[i][k]
            IN  Slice(data[i].data, chunk.citation.start_offset, chunk.citation.end_offset)
                    = chunk.content

(***************************************************************************)
(* C3  Sentence offsets are document coordinates: for every pair (s, e) of *)
(* a chunk's sentence_offsets, document[s:e] is the chunk-local sentence   *)
(* content[s - start_offset : e - start_offset].  Stated for the valid     *)
(* configurations, where it already fails.                                 *)
(***************************************************************************)
SentenceOffsetsAreDocumentCoordinates ==
    ValidConfiguration =>
    \A i \in Documents : \A k \in Positions(chunks_per_data[i]) :
        LET chunk == chunks_per_data[i][k]
            so == chunk.citation.sentence_offsets
        IN  \A n \in 1..Len(so) :
                Slice(data[i].data, so[n][1], so[n][2])
                    = Slice(chunk.content, so[n][1] - chunk.citation.start_offset,
                            so[n][2] - chunk.citation.start_offset)

(***************************************************************************)
(* C4  Overlap bound, as claimed: every non-first chunk borrows exactly    *)
(* min(overlap, len(content of the previous chunk as emitted)) characters. *)
(* Stated for the valid configurations, where it already fails.            *)
(***************************************************************************)
OverlapBoundOfEmittedPredecessor ==
    ValidConfiguration /\ service.chunk_overlap > 0 =>
        \A i \in Documents : SplitPath(i) =>
            \A k \in 2..Len(extracted_chunks[i]) :
                Borrowed(i, k)
                    = Min(service.chunk_overlap, Len(extracted_chunks[i][k - 1].content))

(***************************************************************************)
(* C4  Overlap bound, amended: every non-first chunk borrows exactly       *)
(* min(overlap, len(own text of the previous chunk, before that chunk's    *)
(* own overlap prefix was added)) characters, which is never more than     *)
(* min(overlap, len(content of the previous chunk as emitted)).            *)
(***************************************************************************)
OverlapBoundOfOwnPredecessor ==
    service.chunk_overlap > 0 =>
        \A i \in Documents : SplitPath(i) =>
            \A k \in 2..Len(extracted_chunks[i]) :
                /\ Borrowed(i, k)
                     = Min(service.chunk_overlap, Len(OwnChunksOf(i)[k - 1][1]))
                /\ Borrowed(i, k)
                     <= Min(service.chunk_overlap, Len(extracted_chunks[i][k - 1].content))

\* a third chunk borrowed from a predecessor whose own text is shorter than the overlap
OverlapBoundWitness ==
    /\ ValidConfiguration
    /\ service.chunk_overlap > 0
    /\ \E i \in Documents :
        /\ SplitPath(i)
        /\ Len(extracted_chunks[i]) >= 3
        /\ Borrowed(i, 3) > 0
        /\ Borrowed(i, 3) < service.chunk_overlap

(***************************************************************************)
(* C5  Sentence-offset ordering: in every citation each sentence offset    *)
(* has start < end and consecutive offsets (s1, e1), (s2, e2) satisfy      *)
(* e1 <= s2.                                                               *)
(***************************************************************************)
SentenceOffsetOrdering ==
    \A i \in Documents : \A k \in Positions(extracted_chunks[i]) :
        LET so == extracted_chunks[i][k].citation.sentence_offsets
        IN  /\ \A n \in 1..Len(so) : so[n][1] < so[n][2]
            /\ \A n \in 1..(Len(so) - 1) : so[n][2] <= so[n + 1][1]

\* a chunk whose content holds the same sentence text twice, at two offsets
SentenceOffsetOrderingWitness ==
    ValidConfiguration /\ \E i \in Documents : \E k \in Positions(extracted_chunks[i]) :
        LET chunk == extracted_chunks[i][k]
            so == chunk.citation.sentence_offsets
            local(n) == Slice(chunk.content, so[n][1] - chunk.citation.start_offset,
                              so[n][2] - chunk.citation.start_offset)
        IN  Len(so) >= 2 /\ local(1) = local(2)

(***************************************************************************)
(* C6  Sentence-offset containment: every sentence offset (s, e) of a      *)
(* chunk lies within the chunk's citation span: start_offset <= s and      *)
(* e <= end_offset.                                                        *)
(***************************************************************************)
SentenceOffsetContainment ==
    \A i \in Documents : \A k \in Positions(extracted_chunks[i]) :
        LET citation == extracted_chunks[i][k].citation
            so == citation.sentence_offsets
        IN  \A n \in 1..Len(so) :
                citation.start_offset <= so[n][1] /\ so[n][2] <= citation.end_offset

\* a non-first chunk of the split path, extended by overlap, carries a sentence offset
SentenceOffsetContainmentWitness ==
    /\ ValidConfiguration
    /\ service.chunk_overlap > 0
    /\ \E i \in Documents :
        /\ SplitPath(i)
        /\ Len(chunks_per_data[i]) >= 2
        /\ chunks_per_data[i][2].citation.start_offset > 0
        /\ chunks_per_data[i][2].citation.sentence_offsets # <<>>

(***************************************************************************)
(* C7  Deduplication within one document: the list returned for a document *)
(* is the subsequence of its extracted chunks holding the first occurrence *)
(* of each id, in the original order, and no two returned chunks share an  *)
(* id.                                                                     *)
(***************************************************************************)
DeduplicationWithinDocument ==
    \A i \in Documents :
        /\ chunks_per_data[i]
             = SubsequenceAt(extracted_chunks[i], FirstOccurrences(extracted_chunks[i]), 1)
        /\ \A j, k \in Positions(chunks_per_data[i]) :
               chunks_per_data[i][j].id = chunks_per_data[i][k].id => j = k

\* a later duplicate was dropped from a list that keeps at least two chunks
DeduplicationWitness ==
    ValidConfiguration /\ \E i \in Documents :
        /\ Len(chunks_per_data[i]) >= 2
        /\ Len(chunks_per_data[i]) < Len(extracted_chunks[i])

(***************************************************************************)
(* C8  Dedup scope is per document: extract returns one chunk list per     *)
(* document, in input order, and every id extracted from a document is     *)
(* still present in that document's list, whatever the earlier documents   *)
(* of the call contained.                                                  *)
(***************************************************************************)
DedupScopePerDocument ==
    /\ Len(chunks_per_data) = Len(data)
    /\ \A i \in Documents :
        /\ \A k \in Positions(chunks_per_data[i]) : chunks_per_data[i][k].metadata = i
        /\ \A k \in Positions(extracted_chunks[i]) :
               \E j \in Positions(chunks_per_data[i]) :
                   chunks_per_data[i][j].id = extracted_chunks[i][k].id

\* two documents with the same non-empty content: one chunk each, with equal ids
DedupScopeWitness ==
    /\ ValidConfiguration
    /\ Len(data) = 2
    /\ data[1].data = data[2].data
    /\ data[1].data # <<>>
    /\ Len(chunks_per_data[1]) = 1
    /\ Len(chunks_per_data[2]) = 1
    /\ chunks_per_data[1][1].id = chunks_per_data[2][1].id

(***************************************************************************)
(* C9  Oversized atomic unit: a sentence unit longer than max_chars is,    *)
(* before overlap is applied, a chunk of its own: that unit only, with its *)
(* full text and its span.                                                 *)
(***************************************************************************)
OversizedUnitIsItsOwnChunk ==
    \A i \in Documents : \A u \in 1..Len(UnitsOf(i)) :
        Len(UnitsOf(i)[u][1]) > max_chars =>
            \E k \in 1..Len(OwnChunksOf(i)) : OwnChunksOf(i)[k] = UnitsOf(i)[u]

(***************************************************************************)
(* C10  Configuration misuse is rejected at construction: no service is    *)
(* ever constructed with a chunk_token_size <= 0 or a chunk_token_overlap  *)
(* < 0, so no extract call runs with a non-positive chunk size.            *)
(***************************************************************************)
ConfigurationMisuseRejected ==
    /\ service.constructed => ValidConfiguration
    /\ data # <<>> => service.chunk_size > 0

(***************************************************************************)
(* Notions of the sentence-offset properties.                              *)
(***************************************************************************)
\* the sentence offsets computed for the whole text of the single-chunk document i
OffsetsOfText(i) == extracted_chunks[i][1].citation.sentence_offsets

\* SENTENCE_PATTERN matches nowhere in text
NoBoundary(text) == \A p \in 0..Len(text) : ~ SENTENCE_PATTERN(text, p)

\* the number of blanks text starts with and ends with
LeadingBlanks(text) ==
    Cardinality({p \in 1..Len(text) : \A q \in 1..p : text[q] \in Whitespace})
TrailingBlanks(text) ==
    Cardinality({p \in 1..Len(text) : \A q \in p..Len(text) : text[q] \in Whitespace})

\* text is made of sentences of letters, each closed by one terminator other than
\* the full stop, with no white space anywhere
WideSentencesOnly(text) ==
    /\ text # <<>>
    /\ text[1] \in WordChars
    /\ text[Len(text)] = "!"
    /\ \A p \in 1..Len(text) : text[p] \in WordChars \cup {"!"}
    /\ \A p \in 1..(Len(text) - 1) : text[p] = "!" => text[p + 1] \in WordChars

\* one span per terminator of text, each from the end of the previous one to right
\* after its terminator, for the terminators from offset p on
RECURSIVE SpansByTerminator(_, _, _)
SpansByTerminator(text, from, p) ==
    IF p > Len(text) THEN <<>>
    ELSE IF text[p] \in Terminators
         THEN <<<<from, p>>>> \o SpansByTerminator(text, p, p + 1)
         ELSE SpansByTerminator(text, from, p + 1)

(***************************************************************************)
(* C12  Contiguous sentence spans: for a text of several sentences         *)
(* separated by white space, the first span starts at 0 and every later    *)
(* span starts at the offset where the previous span ended.                *)
(***************************************************************************)
ContiguousSentenceSpans ==
    ValidConfiguration =>
        \A i \in Documents :
            (/\ ~ SplitPath(i)
             /\ Len(OffsetsOfText(i)) >= 2
             /\ data[i].data[1] \notin Whitespace) =>
                /\ OffsetsOfText(i)[1][1] = 0
                /\ \A n \in 1..(Len(OffsetsOfText(i)) - 1) :
                       OffsetsOfText(i)[n + 1][1] = OffsetsOfText(i)[n][2]

(***************************************************************************)
(* C13  Full-width/CJK terminators are sentence boundaries: in a text      *)
(* whose sentences end with such a terminator and are not followed by      *)
(* white space, there is one span per sentence, each ending right after    *)
(* its terminator.                                                         *)
(***************************************************************************)
WideTerminatorsAreBoundaries ==
    ValidConfiguration =>
        \A i \in Documents :
            (~ SplitPath(i) /\ WideSentencesOnly(data[i].data)) =>
                OffsetsOfText(i) = SpansByTerminator(data[i].data, 0, 1)

(***************************************************************************)
(* C14  Degradation without structure, as claimed: a text without a        *)
(* sentence boundary has exactly the span (0, len(text)) when it is not    *)
(* blank, leading or trailing white space included, and no span when it is *)
(* empty or blank.                                                         *)
(***************************************************************************)
DegradationToWholeText ==
    ValidConfiguration =>
        \A i \in Documents :
            (~ SplitPath(i) /\ NoBoundary(data[i].data)) =>
                OffsetsOfText(i) = IF Strip(data[i].data) = <<>> THEN <<>>
                                   ELSE <<<<0, Len(data[i].data)>>>>

(***************************************************************************)
(* C14  Degradation without structure, amended: a text without a sentence  *)
(* boundary has exactly one span when it is not blank, which covers the    *)
(* text without its leading and trailing white space (the whole text when  *)
(* it has none), and no span when it is empty or blank.                    *)
(***************************************************************************)
DegradationToStrippedText ==
    \A i \in Documents :
        (~ SplitPath(i) /\ NoBoundary(data[i].data)) =>
            OffsetsOfText(i)
                = IF Strip(data[i].data) = <<>> THEN <<>>
                  ELSE <<<<LeadingBlanks(data[i].data),
                           Len(data[i].data) - TrailingBlanks(data[i].data)>>>>

\* a text without boundary, not blank, with a blank before and after its content
DegradationWitness ==
    /\ ValidConfiguration
    /\ \E i \in Documents :
        /\ ~ SplitPath(i)
        /\ NoBoundary(data[i].data)
        /\ LeadingBlanks(data[i].data) > 0
        /\ TrailingBlanks(data[i].data) > 0
        /\ Len(OffsetsOfText(i)) = 1

(***************************************************************************)
(* Notions of the merge properties.                                        *)
(***************************************************************************)
\* the indices of the units that lie within the offsets of the merged chunk c
GroupOf(units, c) == {n \in 1..Len(units) : c[2] <= units[n][2] /\ units[n][3] <= c[3]}

\* the least index of a non-empty set of indices
First(group) == CHOOSE n \in group : \A m \in group : n <= m

\* the total length and the concatenated text of the units a..b
RECURSIVE UnitsLength(_, _, _)
UnitsLength(units, a, b) ==
    IF a > b THEN 0 ELSE Len(units[a][1]) + UnitsLength(units, a + 1, b)

RECURSIVE UnitsText(_, _, _)
UnitsText(units, a, b) ==
    IF a > b THEN <<>> ELSE units[a][1] \o UnitsText(units, a + 1, b)

\* p is what text ends with
IsSuffix(p, text) ==
    Len(p) <= Len(text) /\ SubSeq(text, Len(text) - Len(p) + 1, Len(text)) = p

(***************************************************************************)
(* C17  Greedy merge rule: the units are assigned to the chunks in order,  *)
(* each unit to exactly one chunk and no chunk empty; a unit joins the     *)
(* current chunk iff current_length + unit_length <= max_chars -           *)
(* (overlap_chars if the current chunk already has content, else 0), and   *)
(* otherwise the current chunk is closed and a new one starts with it.     *)
(***************************************************************************)
GreedyMergeRule ==
    \A i \in Documents :
        SplitPath(i) =>
            LET units == UnitsOf(i)
                own == OwnChunksOf(i)
                group(k) == GroupOf(units, own[k])
                room == service.chunk_size - service.chunk_overlap
            IN  /\ \A n \in 1..Len(units) :
                       Cardinality({k \in Positions(own) : n \in group(k)}) = 1
                /\ \A k \in Positions(own) :
                       /\ group(k) # {}
                       /\ group(k) = First(group(k))..(First(group(k)) + Cardinality(group(k)) - 1)
                       /\ own[k][1] = UnitsText(units, First(group(k)),
                                                First(group(k)) + Cardinality(group(k)) - 1)
                       /\ k > 1 => First(group(k - 1)) < First(group(k))
                /\ \A k \in Positions(own) : \A n \in group(k) :
                       IF n > First(group(k))
                       THEN UnitsLength(units, First(group(k)), n - 1)
                                + Len(units[n][1]) <= room
                       ELSE k > 1 => Len(own[k - 1][1]) + Len(units[n][1]) > room

\* a unit has joined a chunk with content, and a later unit has closed that chunk
GreedyMergeWitness ==
    /\ ValidConfiguration
    /\ \E i \in Documents :
        /\ SplitPath(i)
        /\ \E k \in Positions(OwnChunksOf(i)) :
            /\ Cardinality(GroupOf(UnitsOf(i), OwnChunksOf(i)[k])) >= 2
            /\ k < Len(OwnChunksOf(i))

(***************************************************************************)
(* C18  Overlap prefix is the previous chunk's tail: with overlap enabled, *)
(* the content of every non-first emitted chunk is P followed by its own   *)
(* text, where P is the trailing min(overlap_chars, length) characters of  *)
(* the previous chunk's text; so it begins with what the previous emitted  *)
(* chunk's content ends with, and its end_offset is the one it had before  *)
(* overlap was applied.                                                    *)
(***************************************************************************)
OverlapPrefixIsPreviousTail ==
    service.chunk_overlap > 0 =>
        \A i \in Documents :
            SplitPath(i) =>
                \A k \in 2..Len(extracted_chunks[i]) :
                    LET prev == OwnChunksOf(i)[k - 1][1]
                        size == Min(service.chunk_overlap, Len(prev))
                        P == SubSeq(prev, Len(prev) - size + 1, Len(prev))
                        chunk == extracted_chunks[i][k]
                    IN  /\ chunk.content = P \o OwnChunksOf(i)[k][1]
                        /\ IsSuffix(P, extracted_chunks[i][k - 1].content)
                        /\ chunk.citation.end_offset = OwnChunksOf(i)[k][3]

\* a non-first chunk whose predecessor is longer than the overlap and does not start
\* with the characters it ends with
OverlapPrefixWitness ==
    /\ service.chunk_overlap > 0
    /\ \E i \in Documents :
        /\ SplitPath(i)
        /\ \E k \in 2..Len(extracted_chunks[i]) :
            LET prev == OwnChunksOf(i)[k - 1][1]
            IN  /\ Len(prev) > service.chunk_overlap
                /\ Borrowed(i, k) = service.chunk_overlap
                /\ SubSeq(prev, 1, service.chunk_overlap)
                       # SubSeq(prev, Len(prev) - service.chunk_overlap + 1, Len(prev))

(***************************************************************************)
(* C20  Size bound of merged chunks: with 0 <= overlap_chars, an emitted   *)
(* chunk merged from two or more sentence units has len(content) <=        *)
(* max_chars after the overlap prefix was prepended; only a chunk built    *)
(* from a single unit can exceed max_chars.                                *)
(***************************************************************************)
MergedChunkSizeBound ==
    service.chunk_overlap >= 0 =>
        \A i \in Documents :
            SplitPath(i) =>
                \A k \in Positions(extracted_chunks[i]) :
                    Cardinality(GroupOf(UnitsOf(i), OwnChunksOf(i)[k])) >= 2 =>
                        Len(extracted_chunks[i][k].content) <= max_chars

\* a chunk merged from two units that carries an overlap prefix
MergedChunkSizeWitness ==
    /\ service.chunk_overlap > 0
    /\ \E i \in Documents :
        /\ SplitPath(i)
        /\ \E k \in Positions(extracted_chunks[i]) :
            /\ Cardinality(GroupOf(UnitsOf(i), OwnChunksOf(i)[k])) >= 2
            /\ Borrowed(i, k) > 0

(***************************************************************************)
(* Notions of the scoring properties.                                      *)
(***************************************************************************)
\* the chunk the last call of the one caller was made on
ScoredChunk == chunks_per_data[call.doc][call.pos]

\* chunk as extraction returned it, before any query
AsExtracted(chunk) == [chunk EXCEPT !.citation.sentence_scores = None]

(***************************************************************************)
(* C15  Top-k selection order: for a chunk with sentence scores,           *)
(* extract_relevant_sentences(chunk, query, k) with k >= 1 returns at most *)
(* k sentence texts, those of the k highest-scoring sentence indices (ties *)
(* going to the earlier index), ordered by ascending sentence index and    *)
(* not by score.                                                           *)
(***************************************************************************)
TopKInPositionOrder ==
    (call.op = "extract_relevant_sentences"
        /\ ScoredChunk.citation.sentence_scores # None) =>
        LET sentence_scores == ScoredChunk.citation.sentence_scores
            scored == DOMAIN sentence_scores
            Ahead(i, j) == \/ sentence_scores[i] > sentence_scores[j]
                           \/ sentence_scores[i] = sentence_scores[j] /\ i < j
        IN  \E top \in SUBSET scored :
                /\ Cardinality(top) = Min(call.max_sentences, Cardinality(scored))
                /\ \A i \in top, j \in scored \ top : Ahead(i, j)
                /\ Len(call.value) = Cardinality(top)
                /\ Len(call.value) <= call.max_sentences
                /\ \A i \in top :
                       call.value[Cardinality({j \in top : j < i}) + 1]
                           = sentence_of(ScoredChunk,
                                         ScoredChunk.citation.sentence_offsets[i + 1])

\* two sentences were returned of which the later one has the higher score
TopKWitness ==
    /\ call.op = "extract_relevant_sentences"
    /\ Len(call.value) = 2
    /\ ScoredChunk.citation.sentence_scores # None
    /\ \E i, j \in DOMAIN ScoredChunk.citation.sentence_scores :
           /\ i < j
           /\ ScoredChunk.citation.sentence_scores[j]
                  > ScoredChunk.citation.sentence_scores[i]

CaseFolded(text) == [p \in 1..Len(text) |-> IF text[p] = "A" THEN "a" ELSE text[p]]

\* the white-space-delimited tokens of the case-folded text
TokensOf(text) == str_split(CaseFolded(text))

\* the query is a single term, a word
SingleWordQuery(query) ==
    /\ Cardinality(TokensOf(query)) = 1
    /\ \A term \in TokensOf(query) : \A p \in DOMAIN term : term[p] \in WordChars

\* the sentence has the term as a word, alone or directly followed by punctuation
ContainsTerm(sentence, term) ==
    \E token \in TokensOf(sentence) :
        /\ Len(token) >= Len(term)
        /\ SubSeq(token, 1, Len(term)) = term
        /\ \A p \in (Len(term) + 1)..Len(token) : token[p] \in Terminators

\* the sentence has the term among its tokens
HasToken(sentence, term) == term \in TokensOf(sentence)

\* the scored sentence with index i of the chunk at position ik
ScoredSentence(ik, i) ==
    LET chunk == chunks_per_data[ik[1]][ik[2]]
    IN  Strip(sentence_of(chunk, chunk.citation.sentence_offsets[i + 1]))

ScoresAt(ik) == chunks_per_data[ik[1]][ik[2]].citation.sentence_scores

(***************************************************************************)
(* C16  Scoring monotonicity, as claimed: for a query of the single term   *)
(* "sentence", of two sentences with the same index and the same length,   *)
(* the one that contains the term, also when punctuation directly follows  *)
(* it, scores strictly higher than the one that contains no query term.    *)
(***************************************************************************)
ScoringMonotonicity ==
    (call.op = "get_highlighted_sentences" /\ SingleWordQuery(call.query)) =>
        \A term \in TokensOf(call.query) :
            \A ik1 \in ChunkPositions, ik2 \in ChunkPositions :
                \A i \in DOMAIN ScoresAt(ik1) \cap DOMAIN ScoresAt(ik2) :
                    (/\ Len(ScoredSentence(ik1, i)) = Len(ScoredSentence(ik2, i))
                     /\ ContainsTerm(ScoredSentence(ik1, i), term)
                     /\ ~ ContainsTerm(ScoredSentence(ik2, i), term)) =>
                        ScoresAt(ik1)[i] > ScoresAt(ik2)[i]

(***************************************************************************)
(* C16  Scoring monotonicity, amended: for a query of a single term, of    *)
(* two sentences with the same index and the same length, the one that     *)
(* has the term among its case-folded white-space-delimited tokens scores  *)
(* strictly higher than the one that has not; a term with punctuation      *)
(* attached is another token and does not count.                           *)
(***************************************************************************)
TokenMonotonicity ==
    (call.op = "get_highlighted_sentences" /\ Cardinality(TokensOf(call.query)) = 1) =>
        \A term \in TokensOf(call.query) :
            \A ik1 \in ChunkPositions, ik2 \in ChunkPositions :
                \A i \in DOMAIN ScoresAt(ik1) \cap DOMAIN ScoresAt(ik2) :
                    (/\ Len(ScoredSentence(ik1, i)) = Len(ScoredSentence(ik2, i))
                     /\ HasToken(ScoredSentence(ik1, i), term)
                     /\ ~ HasToken(ScoredSentence(ik2, i), term)) =>
                        ScoresAt(ik1)[i] > ScoresAt(ik2)[i]

\* two sentences of the same index and length were scored for a term given in upper
\* case, one with the term as a token and one without
TokenMonotonicityWitness ==
    /\ call.op = "get_highlighted_sentences"
    /\ call.query = <<"A">>
    /\ \E ik1 \in ChunkPositions, ik2 \in ChunkPositions :
           \E i \in DOMAIN ScoresAt(ik1) \cap DOMAIN ScoresAt(ik2) :
               /\ Len(ScoredSentence(ik1, i)) = Len(ScoredSentence(ik2, i))
               /\ HasToken(ScoredSentence(ik1, i), <<"a">>)
               /\ ~ HasToken(ScoredSentence(ik2, i), <<"a">>)
               /\ ScoresAt(ik1)[i] > ScoresAt(ik2)[i]

(***************************************************************************)
(* C11  No race on sentence_scores: when two queries run                   *)
(* get_highlighted_sentences concurrently on the same chunk objects, every *)
(* query selects its sentences from the scores computed for its own query, *)
(* in every interleaving: what a thread returns is what its call returns   *)
(* when it runs alone.                                                     *)
(***************************************************************************)
NoRaceOnSentenceScores ==
    \A t \in Threads :
        threads[t].pc = "done" =>
            threads[t].results
                = highlighted_loop([i \in DOMAIN chunks_per_data |->
                                       [k \in DOMAIN chunks_per_data[i] |->
                                           AsExtracted(chunks_per_data[i][k])]],
                                   threads[t].query, 1, <<>>).results

\* ---------------------------------------------------------------------------
\* Citation well-formedness

\* The chunks a document yields, before and after deduplication.
EmittedChunksOf(i) ==
    {extracted_chunks[i][k] : k \in Positions(extracted_chunks[i])}
        \cup {chunks_per_data[i][k] : k \in Positions(chunks_per_data[i])}

WellFormed(chunk, content_length) ==
    /\ 0 <= chunk.citation.start_offset
    /\ chunk.citation.start_offset <= chunk.citation.end_offset
    /\ chunk.citation.end_offset <= content_length
    /\ Len(chunk.content) <= chunk.citation.end_offset - chunk.citation.start_offset

\* C21: every chunk emitted by extraction, with or without overlap, has
\* 0 <= start_offset <= end_offset <= length of the document content, and a
\* content no longer than end_offset - start_offset; so the start offset of a
\* non-first chunk, pulled back over its overlap prefix, is never negative.
CitationWellFormed ==
    \A i \in Documents :
        \A chunk \in EmittedChunksOf(i) : WellFormed(chunk, Len(data[i].data))

\* Under a valid configuration with overlap, a non-first chunk carries an
\* overlap prefix and its start offset has been pulled back from its end
\* offset to before the start of its own text.
CitationWellFormedWitness ==
    \E i \in Documents :
        /\ ValidConfiguration
        /\ SplitPath(i)
        /\ service.chunk_overlap > 0
        /\ \E k \in Positions(extracted_chunks[i]) :
              /\ k > 1
              /\ Borrowed(i, k) > 0
              /\ extracted_chunks[i][k].citation.start_offset
                     = extracted_chunks[i][k].citation.end_offset
                         - Len(extracted_chunks[i][k].content)
              /\ extracted_chunks[i][k].citation.start_offset
                     < OwnChunksOf(i)[k][2]
====
